---- MODULE Spec2Model ----
(***************************************************************************)
(* VoiceChatUtilities: the sequential, paced request runner               *)
(* (runSequential), the dispatcher of bulk server actions (sendPatch and   *)
(* the actions table) and the bulk local actions (mute, unmute,            *)
(* muteSoundboards, unmuteSoundboards).                                    *)
(*                                                                         *)
(* One step of the model is one run-to-completion turn of the JavaScript   *)
(* event loop: a menu action handler, the continuation after an awaited    *)
(* request settles, or the continuation after a pacing timer fires.        *)
(***************************************************************************)
EXTENDS Integers, Sequences, FiniteSets, TLC

\* ---------------------------------------------------------------- bounds
\* user ids 1..MaxUsers may be connected to the target voice channel
MaxUsers == 3
\* number of batches whose promises may be alive at the same time
MaxBatches == 2
\* longest roster of SpecPacing
MaxProducers == 6
\* the waitAfter setting of SpecLive
MaxLiveWaitAfter == 2

\* ------------------------------------------------------ program constants
\* markers of the waitAfter slider: makeRange(1, 20)
WaitAfterMin == 1
WaitAfterMax == 20
\* UserStore.getCurrentUser().id, the invoking user
myId == 1

Users == 1..MaxUsers
\* channel.id of the channel the context menu was opened on
TargetChannel == "vc1"
\* the other voice channel of the guild (a move destination)
OtherChannel == "vc2"
NoChannel == "null"

VARIABLES
    waitAfter,               \* settings.store.waitAfter
    includeSelfInActions,    \* settings.store.includeSelfInActions
    voiceStates,             \* Object.values(VoiceStateStore.getVoiceStatesForChannel(channel.id)), as user ids
    selectedVoiceChannelId,  \* SelectedChannelStore.getVoiceChannelId()
    batches,                 \* the runSequential invocations started by sendPatch
    localMute,               \* users u with MediaEngineStore.isLocalMute(u)
    selfMute,                \* MediaEngineStore.isSelfMute()
    soundboardMuted,         \* users u with SoundboardStore.isLocalSoundboardMuted(u)
    localLog                 \* the ClientActions calls of the latest bulk local action

vars == <<waitAfter, includeSelfInActions, voiceStates, selectedVoiceChannelId,
          batches, localMute, selfMute, soundboardMuted, localLog>>

settingsVars == <<waitAfter, includeSelfInActions>>
localVars == <<localMute, selfMute, soundboardMuted, localLog>>

\* ------------------------------------------------------------- helpers
Range(s) == {s[k] : k \in 1..Len(s)}

NoDup(s) == \A j, k \in 1..Len(s) : j # k => s[j] # s[k]

\* the sequences without repetition over the set S, of every length
RECURSIVE Orderings(_)
Orderings(S) ==
    IF S = {} THEN {<<>>}
    ELSE {<<>>} \cup UNION {{<<x>> \o t : t \in Orderings(S \ {x})} : x \in S}

Remove(s, u) == SelectSeq(s, LAMBDA x : x # u)

\* ------------------------------------------------------ the batch runner
\* the request RestAPI.patch({url: `/guilds/${g}/members/${userId}`, body})
\* of one producer; the guild is the target channel's and is left out
Producer(userId, body) == [url |-> userId, body |-> body]

\* what a producer's promise resolves with: the host's answer to that request
Response(p) == [ok |-> TRUE, url |-> p.url, body |-> p.body]

\* what a producer's promise rejects with
ErrorOf(p) == p.url

\* a slot no runSequential call occupies
NoBatch ==
    [status |-> "none", op |-> "none", present |-> <<>>, includeSelf |-> FALSE,
     promises |-> <<>>, i |-> 0, results |-> <<>>, started |-> <<>>,
     settled |-> {}, pauses |-> 0, timers |-> 0, error |-> 0, logged |-> 0,
     handled |-> FALSE, selected |-> NoChannel, selfCall |-> "none",
     statusAtReturn |-> "none"]

\* a runner that collects the results newest first
PushResultFront(results, result) == <<result>> \o results

\* results.push(result)
PushResult(results, result) == Append(results, result)

\* a runner that pauses after every full group of waitAfter requests
ShouldPauseAfterFullBatch(i, wa) == (i + 1) % wa = 0

\* i % settings.store.waitAfter === 0
ShouldPause(i, wa) == i % wa = 0

\* a loop whose bound is off by one: i <= promises.length
LoopHeadOffByOne(b, i) ==
    IF i <= Len(b.promises)
    THEN [b EXCEPT !.status = "request", !.i = i, !.started = Append(@, i)]
    ELSE [b EXCEPT !.status = "resolved", !.i = i]

\* the head of the for loop with loop variable i: either promises[i]() is
\* called and awaited, or the loop is left and results is returned
LoopHead(b, i) ==
    IF i < Len(b.promises)
    THEN [b EXCEPT !.status = "request", !.i = i, !.started = Append(@, i)]
    ELSE [b EXCEPT !.status = "resolved", !.i = i]

\* a runner that sets the pacing timer without awaiting it
AfterResolveNoAwait(b, wa) ==
    LET b1 == [b EXCEPT !.results = PushResult(@, Response(b.promises[b.i + 1])),
                        !.settled = @ \cup {b.i}]
    IN  IF ShouldPause(b.i, wa)
        THEN LoopHead([b1 EXCEPT !.pauses = @ + 1, !.timers = @ + 1], b.i + 1)
        ELSE LoopHead(b1, b.i + 1)

\* the continuation of `await promise` when the request resolved
AfterResolve(b, wa) ==
    LET b1 == [b EXCEPT !.results = PushResult(@, Response(b.promises[b.i + 1])),
                        !.settled = @ \cup {b.i}]
    IN  IF ShouldPause(b.i, wa)
        THEN [b1 EXCEPT !.status = "pause", !.pauses = @ + 1, !.timers = @ + 1]
        ELSE LoopHead(b1, b.i + 1)

\* the continuation of the awaited setTimeout promise: i++ and the loop head
AfterPause(b) == LoopHead([b EXCEPT !.timers = @ - 1], b.i + 1)

\* a handler that logs the error and throws it again
CatchHandlerRethrow(b) == [b EXCEPT !.logged = @ + 1, !.handled = FALSE]

\* .catch(error => console.error("VoiceChatUtilities failed to run", error))
CatchHandler(b) == [b EXCEPT !.logged = @ + 1, !.handled = TRUE]

\* a runner that catches the rejection inside the loop and goes on
AfterRejectContinue(b) ==
    LoopHead(CatchHandler([b EXCEPT !.settled = @ \cup {b.i},
                                    !.error = ErrorOf(b.promises[b.i + 1])]),
             b.i + 1)

\* the continuation of `await promise` when the request rejected: the async
\* function rejects with the error, and the handler sendPatch attached runs
AfterReject(b) ==
    CatchHandler([b EXCEPT !.status = "rejected", !.settled = @ \cup {b.i},
                           !.error = ErrorOf(b.promises[b.i + 1])])

\* runSequential(promises) up to its first await
runSequential(promises) == LoopHead([NoBatch EXCEPT !.promises = promises], 0)

\* --------------------------------------------------------- the dispatcher
\* a roster that never holds the invoking user (the flag is not honoured)
getVoiceStatesWithoutSelf(vcStates, includeSelf) ==
    SelectSeq(vcStates, LAMBDA userId : userId # myId)

\* a roster that always holds the invoking user (no filter)
getVoiceStatesWithSelf(vcStates, includeSelf) == vcStates

\* getVoiceStates(channel, includeSelf)
getVoiceStates(vcStates, includeSelf) ==
    SelectSeq(vcStates, LAMBDA userId : includeSelf \/ userId # myId)

\* the producers sendPatch builds, one per voice state getVoiceStates returns
BuildPromises(vcStates, body, includeSelf) ==
    LET usersVoice == getVoiceStates(vcStates, includeSelf)
    IN  [k \in 1..Len(usersVoice) |-> Producer(usersVoice[k], body)]

\* sendPatch(channel, body, includeSelf) until it returns to its caller
sendPatch(vcStates, body, includeSelf) ==
    LET b == runSequential(BuildPromises(vcStates, body, includeSelf))
    IN  [b EXCEPT !.present = vcStates, !.includeSelf = includeSelf,
                  !.statusAtReturn = b.status]

Settled(b) == b.status \in {"none", "resolved", "rejected"}

\* the slot a new batch takes: the lowest one whose batch has settled
FreeSlot(s) == Settled(batches[s]) /\ \A t \in 1..(s - 1) : ~Settled(batches[t])

\* a sendPatch whose includeSelf defaults to true
DefaultIncludeSelfTrue == TRUE

\* the default of sendPatch's parameter: includeSelf = false
DefaultIncludeSelf == FALSE

\* a dispatcher that reuses the roster of a batch that is still running
DispatchStaleRoster(op, body, includeSelf, selfCall) ==
    \E s \in DOMAIN batches :
        /\ FreeSlot(s)
        /\ batches' = [batches EXCEPT ![s] =
               [sendPatch(IF \E t \in DOMAIN batches : ~Settled(batches[t])
                          THEN batches[CHOOSE t \in DOMAIN batches :
                                           ~Settled(batches[t])].present
                          ELSE voiceStates,
                          body, includeSelf)
                   EXCEPT !.op = op, !.selfCall = selfCall,
                          !.selected = selectedVoiceChannelId]]

\* an action of the table: its direct ChannelActions call, if any, and its
\* sendPatch call; the slot records what the action saw and did
Dispatch(op, body, includeSelf, selfCall) ==
    \E s \in DOMAIN batches :
        /\ FreeSlot(s)
        /\ batches' = [batches EXCEPT ![s] =
               [sendPatch(voiceStates, body, includeSelf)
                   EXCEPT !.op = op, !.selfCall = selfCall,
                          !.selected = selectedVoiceChannelId]]

\* serverMute: c => sendPatch(c, { mute: true }, settings.store.includeSelfInActions)
serverMute ==
    /\ Dispatch("serverMute", <<"mute", "true">>, includeSelfInActions, "none")
    /\ UNCHANGED <<settingsVars, voiceStates, selectedVoiceChannelId, localVars>>

serverUnmute ==
    /\ Dispatch("serverUnmute", <<"mute", "false">>, includeSelfInActions, "none")
    /\ UNCHANGED <<settingsVars, voiceStates, selectedVoiceChannelId, localVars>>

serverDeafen ==
    /\ Dispatch("serverDeafen", <<"deaf", "true">>, includeSelfInActions, "none")
    /\ UNCHANGED <<settingsVars, voiceStates, selectedVoiceChannelId, localVars>>

serverUndeafen ==
    /\ Dispatch("serverUndeafen", <<"deaf", "false">>, includeSelfInActions, "none")
    /\ UNCHANGED <<settingsVars, voiceStates, selectedVoiceChannelId, localVars>>

\* whether the action makes the direct ChannelActions call for the invoker
SelfTransition(selected) == selected = TargetChannel

\* disconnect: ChannelActions.disconnect() when this client's voice channel is
\* the target, then sendPatch(channel, { channel_id: null })
disconnect ==
    /\ Dispatch("disconnect", <<"channel_id", NoChannel>>, DefaultIncludeSelf,
                IF SelfTransition(selectedVoiceChannelId) THEN "disconnect" ELSE "none")
    /\ selectedVoiceChannelId' =
           IF SelfTransition(selectedVoiceChannelId) THEN NoChannel
           ELSE selectedVoiceChannelId
    /\ UNCHANGED <<settingsVars, voiceStates, localVars>>

\* moveTo: ChannelActions.selectVoiceChannel(newChannel.id) when this client's
\* voice channel is the target, then sendPatch(channel, { channel_id: newChannel.id })
moveTo ==
    /\ Dispatch("moveTo", <<"channel_id", OtherChannel>>, DefaultIncludeSelf,
                IF SelfTransition(selectedVoiceChannelId) THEN "selectVoiceChannel" ELSE "none")
    /\ selectedVoiceChannelId' =
           IF SelfTransition(selectedVoiceChannelId) THEN OtherChannel
           ELSE selectedVoiceChannelId
    /\ UNCHANGED <<settingsVars, voiceStates, localVars>>

\* the request a batch awaits resolves
RequestResolves ==
    \E s \in DOMAIN batches :
        /\ batches[s].status = "request"
        /\ batches' = [batches EXCEPT ![s] = AfterResolve(@, waitAfter)]
        /\ UNCHANGED <<settingsVars, voiceStates, selectedVoiceChannelId, localVars>>

\* the request a batch awaits rejects
RequestRejects ==
    \E s \in DOMAIN batches :
        /\ batches[s].status = "request"
        /\ batches' = [batches EXCEPT ![s] = AfterReject(@)]
        /\ UNCHANGED <<settingsVars, voiceStates, selectedVoiceChannelId, localVars>>

\* the pacing timer of a batch fires
PauseElapses ==
    \E s \in DOMAIN batches :
        /\ batches[s].status = "pause"
        /\ batches' = [batches EXCEPT ![s] = AfterPause(@)]
        /\ UNCHANGED <<settingsVars, voiceStates, selectedVoiceChannelId, localVars>>

\* ------------------------------------------------- live voice presence
\* a user connects to the target channel: a new entry of the voice states
Join ==
    \E u \in Users :
        /\ u \notin Range(voiceStates)
        /\ voiceStates' = Append(voiceStates, u)
        /\ UNCHANGED <<settingsVars, selectedVoiceChannelId, batches, localVars>>

\* a user leaves the target channel
Leave ==
    \E u \in Range(voiceStates) :
        /\ voiceStates' = Remove(voiceStates, u)
        /\ UNCHANGED <<settingsVars, selectedVoiceChannelId, batches, localVars>>

\* ------------------------------------------------- the local bulk actions
NoLocalLog == [op |-> "none", roster |-> <<>>, calls |-> <<>>]

\* ClientActions.toggleLocalMute(userId) / toggleLocalSoundboardMute(userId):
\* the host flips the user's flag
Toggle(muted, userId) ==
    IF userId \in muted THEN muted \ {userId} ELSE muted \cup {userId}

\* a forEach that toggles every user of the roster, muted or not
ToggleCallsAll(roster, muted, target) == roster

\* the users a forEach over roster calls the toggle for, in call order:
\* `isMuted(userId) || toggle(userId)` when target is TRUE (mute),
\* `isMuted(userId) && toggle(userId)` when target is FALSE (unmute)
ToggleCalls(roster, muted, target) ==
    SelectSeq(roster, LAMBDA userId : (userId \in muted) # target)

\* the flags after the calls have been made one after the other
RECURSIVE ApplyToggles(_, _)
ApplyToggles(muted, calls) ==
    IF calls = <<>> THEN muted
    ELSE ApplyToggles(Toggle(muted, Head(calls)), Tail(calls))

\* settings.store.includeSelfInActions && (isSelfMute() differs from target)
SelfToggle(includeSelf, isSelfMute, target) == includeSelf /\ (isSelfMute # target)

Tagged(name, calls) == [k \in 1..Len(calls) |-> <<name, calls[k]>>]

LocalMuteAction(op, target) ==
    LET roster == getVoiceStates(voiceStates, FALSE)
        calls == ToggleCalls(roster, localMute, target)
        self == SelfToggle(includeSelfInActions, selfMute, target)
    IN  /\ localMute' = ApplyToggles(localMute, calls)
        /\ selfMute' = IF self THEN ~selfMute ELSE selfMute
        /\ localLog' = [op |-> op, roster |-> roster,
                        calls |-> Tagged("toggleLocalMute", calls)
                                  \o (IF self THEN <<<<"toggleSelfMute", myId>>>> ELSE <<>>)]
        /\ UNCHANGED <<settingsVars, voiceStates, selectedVoiceChannelId,
                       batches, soundboardMuted>>

LocalSoundboardAction(op, target) ==
    LET roster == getVoiceStates(voiceStates, FALSE)
        calls == ToggleCalls(roster, soundboardMuted, target)
    IN  /\ soundboardMuted' = ApplyToggles(soundboardMuted, calls)
        /\ localLog' = [op |-> op, roster |-> roster,
                        calls |-> Tagged("toggleLocalSoundboardMute", calls)]
        /\ UNCHANGED <<settingsVars, voiceStates, selectedVoiceChannelId,
                       batches, localMute, selfMute>>

mute == LocalMuteAction("mute", TRUE)

unmute == LocalMuteAction("unmute", FALSE)

muteSoundboards == LocalSoundboardAction("muteSoundboards", TRUE)

unmuteSoundboards == LocalSoundboardAction("unmuteSoundboards", FALSE)

\* ------------------------------------------------------- specifications
InitLocalClean ==
    /\ localMute = {}
    /\ selfMute = FALSE
    /\ soundboardMuted = {}
    /\ localLog = NoLocalLog

\* Spec: the bulk server actions, dispatched one batch after the other on a
\* channel whose members stay, for every setting and every roster order.
Init ==
    /\ waitAfter \in WaitAfterMin..WaitAfterMax
    /\ includeSelfInActions \in BOOLEAN
    /\ voiceStates \in Orderings(Users)
    /\ selectedVoiceChannelId \in {TargetChannel, OtherChannel, NoChannel}
    /\ batches = [s \in 1..1 |-> NoBatch]
    /\ InitLocalClean

Next ==
    \/ serverMute
    \/ serverUnmute
    \/ serverDeafen
    \/ serverUndeafen
    \/ disconnect
    \/ moveTo
    \/ RequestResolves
    \/ RequestRejects
    \/ PauseElapses

Spec == Init /\ [][Next]_vars

\* SpecPacing: the same actions on longer rosters (users 1..n in the channel)
InitPacing ==
    /\ waitAfter \in WaitAfterMin..WaitAfterMax
    /\ includeSelfInActions \in BOOLEAN
    /\ voiceStates \in {[k \in 1..n |-> k] : n \in 0..MaxProducers}
    /\ selectedVoiceChannelId \in {TargetChannel, NoChannel}
    /\ batches = [s \in 1..1 |-> NoBatch]
    /\ InitLocalClean

SpecPacing == InitPacing /\ [][Next]_vars

\* SpecLocal: the bulk local actions, from every local mute state
InitLocal ==
    /\ waitAfter = WaitAfterMin
    /\ includeSelfInActions \in BOOLEAN
    /\ voiceStates \in Orderings(Users)
    /\ selectedVoiceChannelId = TargetChannel
    /\ batches = [s \in 1..1 |-> NoBatch]
    /\ localMute \in SUBSET Users
    /\ selfMute \in BOOLEAN
    /\ soundboardMuted \in SUBSET Users
    /\ localLog = NoLocalLog

NextLocal ==
    \/ mute
    \/ unmute
    \/ muteSoundboards
    \/ unmuteSoundboards

SpecLocal == InitLocal /\ [][NextLocal]_vars

\* SpecLive: serverMute and serverUnmute batches dispatched while others run,
\* on a channel that users join and leave
InitLive ==
    /\ waitAfter = MaxLiveWaitAfter
    /\ includeSelfInActions \in BOOLEAN
    /\ voiceStates = <<>>
    /\ selectedVoiceChannelId = TargetChannel
    /\ batches = [s \in 1..MaxBatches |-> NoBatch]
    /\ InitLocalClean

NextLive ==
    \/ serverMute
    \/ serverUnmute
    \/ RequestResolves
    \/ RequestRejects
    \/ PauseElapses
    \/ Join
    \/ Leave

SpecLive == InitLive /\ [][NextLive]_vars

\* ------------------------------------------------------------ properties
\* the member ids the producers of a batch address, in producer order
Urls(b) == [k \in 1..Len(b.promises) |-> b.promises[k].url]

\* the zero-based indices 0, 1, ..., n-1 in order
Upto(n) == [k \in 1..n |-> k - 1]

\* the producers whose request was issued and has not settled
InFlight(b) == Range(b.started) \ b.settled

\* the zero-based indices below n that are multiples of wa
PauseIndices(n, wa) == {j \in 0..(n - 1) : j % wa = 0}

\* the slots a batch has been dispatched to
Dispatched == {s \in DOMAIN batches : batches[s].op # "none"}

C2_OneAtATime ==
    \A s \in Dispatched :
        LET b == batches[s]
        IN  /\ b.started = Upto(Len(b.started))
            /\ Len(b.started) <= Len(b.promises)
            /\ Cardinality(InFlight(b)) <= 1
            /\ \A j \in Range(b.started) : j > 0 => (j - 1) \in b.settled
            /\ b.timers > 0 => InFlight(b) = {}
            /\ b.timers \in {0, 1}
            /\ b.status = "request" <=> InFlight(b) # {}

C2_Witness ==
    \E s \in Dispatched :
        /\ batches[s].status = "request"
        /\ batches[s].started = <<0, 1, 2>>
        /\ batches[s].settled = {0, 1}
        /\ batches[s].pauses = 2

\* C3: when the operation of the producer at index k rejects, runSequential
\* rejects with that error, no producer above k has been started, no pause
\* follows the rejection, and the producers below k were started and completed.
C3_RejectionStops ==
    \A s \in Dispatched :
        LET b == batches[s]
            k == b.i
        IN  b.error # 0 =>
              /\ b.status = "rejected"
              /\ k < Len(b.promises)
              /\ b.error = ErrorOf(b.promises[k + 1])
              /\ b.started = Upto(k + 1)
              /\ b.settled = 0..k
              /\ Len(b.results) = k
              /\ \A j \in 1..k : b.results[j] = Response(b.promises[j])
              /\ b.timers = 0
              /\ b.pauses = Cardinality(PauseIndices(k, waitAfter))

C3_Witness ==
    \E s \in Dispatched :
        /\ batches[s].status = "rejected"
        /\ Len(batches[s].promises) = 3
        /\ batches[s].i = 1
        /\ batches[s].started = <<0, 1>>

\* C4: when every producer resolves, runSequential resolves with as many
\* results as producers, the result at position i being that of producer i.
C4_ResultsInOrder ==
    \A s \in Dispatched :
        LET b == batches[s]
        IN  b.status = "resolved" =>
              /\ Len(b.results) = Len(b.promises)
              /\ \A k \in 1..Len(b.promises) : b.results[k] = Response(b.promises[k])

C4_Witness ==
    \E s \in Dispatched :
        /\ batches[s].status = "resolved"
        /\ Len(batches[s].results) = 3
        /\ batches[s].results[1].url # batches[s].results[3].url

\* the patch body of each bulk server action
BodyOf(op) ==
    CASE op = "serverMute" -> <<"mute", "true">>
      [] op = "serverUnmute" -> <<"mute", "false">>
      [] op = "serverDeafen" -> <<"deaf", "true">>
      [] op = "serverUndeafen" -> <<"deaf", "false">>
      [] op = "disconnect" -> <<"channel_id", NoChannel>>
      [] op = "moveTo" -> <<"channel_id", OtherChannel>>

MuteDeafenOps == {"serverMute", "serverUnmute", "serverDeafen", "serverUndeafen"}

\* C5: serverMute, serverUnmute, serverDeafen and serverUndeafen issue exactly
\* one patch request per present member: the invoking user is left out when
\* includeSelfInActions is false and is one of them when it is true.
C5_OneRequestPerMember ==
    \A s \in Dispatched :
        LET b == batches[s]
            targets == IF includeSelfInActions THEN Range(b.present)
                       ELSE Range(b.present) \ {myId}
        IN  b.op \in MuteDeafenOps =>
              /\ Range(Urls(b)) = targets
              /\ Len(b.promises) = Cardinality(targets)
              /\ \A k \in 1..Len(b.promises) : b.promises[k].body = BodyOf(b.op)
              /\ NoDup(b.started)
              /\ b.status = "resolved" => Range(b.started) = 0..(Len(b.promises) - 1)

C5_Witness ==
    \E s \in Dispatched :
        /\ batches[s].op = "serverMute"
        /\ includeSelfInActions
        /\ myId \in Range(batches[s].present)
        /\ Len(batches[s].present) = 3
        /\ Len(batches[s].promises) = 3
        /\ batches[s].status = "resolved"

MoveOps == {"disconnect", "moveTo"}

\* the direct ChannelActions call each move action makes for the invoker
SelfCallOf(op) == IF op = "disconnect" THEN "disconnect" ELSE "selectVoiceChannel"

SoundboardOps == {"muteSoundboards", "unmuteSoundboards"}

\* C7: muteSoundboards and unmuteSoundboards make no soundboard-mute toggle
\* call for the invoking user, for every roster and both values of
\* includeSelfInActions, and leave the invoking user's flag as it was.
C7_NoSelfSoundboardToggle ==
    localLog.op \in SoundboardOps =>
        /\ \A k \in 1..Len(localLog.calls) :
              /\ localLog.calls[k][1] = "toggleLocalSoundboardMute"
              /\ localLog.calls[k][2] # myId
              /\ localLog.calls[k][2] \in Range(voiceStates)
        /\ myId \notin Range(localLog.roster)

C7_Witness ==
    /\ localLog.op = "muteSoundboards"
    /\ includeSelfInActions
    /\ myId \in Range(voiceStates)
    /\ myId \notin soundboardMuted
    /\ Len(localLog.calls) = 2

\* C8: an action dispatched on a channel without members hands the runner no
\* producer; runSequential on an empty producer list resolves with an empty
\* result list before sendPatch returns, issuing no request and no pause.
C8_EmptyRoster ==
    \A s \in Dispatched :
        LET b == batches[s]
        IN  /\ b.present = <<>> => b.promises = <<>>
            /\ b.promises = <<>> =>
                  /\ b.status = "resolved"
                  /\ b.statusAtReturn = "resolved"
                  /\ b.results = <<>>
                  /\ b.started = <<>>
                  /\ b.pauses = 0
                  /\ b.timers = 0
                  /\ b.logged = 0

C8_Witness ==
    \E s \in Dispatched :
        /\ batches[s].op = "moveTo"
        /\ batches[s].present = <<>>
        /\ batches[s].status = "resolved"

\* C9: a rejected request never reaches the caller of the action: sendPatch
\* had returned while the batch was still awaiting its first request, the
\* rejection is handled and logged exactly once, the failed request was issued
\* once and is the last request of the batch; nothing is logged otherwise.
C9_FailureLoggedOnce ==
    \A s \in Dispatched :
        LET b == batches[s]
        IN  /\ b.error # 0 =>
                  /\ b.status = "rejected"
                  /\ b.statusAtReturn = "request"
                  /\ b.handled
                  /\ b.logged = 1
                  /\ NoDup(b.started)
                  /\ b.started[Len(b.started)] = b.i
                  /\ ErrorOf(b.promises[b.i + 1]) = b.error
            /\ b.error = 0 => b.logged = 0
            /\ b.statusAtReturn \in {"request", "resolved"}

C9_Witness ==
    \E s \in Dispatched :
        /\ batches[s].error # 0
        /\ batches[s].logged = 1
        /\ Len(batches[s].promises) = 3
        /\ batches[s].started = <<0>>

\* the users the latest local action called toggleLocalMute for
LocalMuteCalls(log) ==
    {log.calls[k][2] : k \in {j \in 1..Len(log.calls) : log.calls[j][1] = "toggleLocalMute"}}

\* the number of toggleSelfMute calls of the latest local action
SelfMuteCalls(log) ==
    Cardinality({j \in 1..Len(log.calls) : log.calls[j][1] = "toggleSelfMute"})

\* what a step of mute (target TRUE) or unmute (target FALSE) must do
LocalMuteStep(op, target) ==
    LET others == Range(voiceStates) \ {myId}
        differ == {u \in others : (u \in localMute) # target}
    IN  localLog'.op = op =>
          /\ LocalMuteCalls(localLog') = differ
          /\ NoDup(localLog'.calls)
          /\ localMute' = IF target THEN localMute \cup others ELSE localMute \ others
          /\ SelfMuteCalls(localLog') =
                 IF includeSelfInActions /\ selfMute # target THEN 1 ELSE 0
          /\ selfMute' = IF includeSelfInActions THEN target ELSE selfMute
          /\ localLog.op = op =>
                 /\ localLog'.calls = <<>>
                 /\ localMute' = localMute
                 /\ selfMute' = selfMute

\* C10: mute toggles the local mute of exactly the present members other than
\* the invoking user who are not locally muted, so that afterwards all of them
\* are muted and nobody was unmuted; a second mute on the same roster makes no
\* call and changes nothing; unmute is the mirror image; the self-mute is
\* toggled exactly when includeSelfInActions is set and it differs from the
\* target.
C10_LocalMuteIdempotent ==
    [][LocalMuteStep("mute", TRUE) /\ LocalMuteStep("unmute", FALSE)]_vars

C10_Witness ==
    /\ localLog.op = "mute"
    /\ Len(localLog.calls) = 3
    /\ SelfMuteCalls(localLog) = 1
    /\ selfMute
    /\ Range(voiceStates) \ {myId} \subseteq localMute

\* a step of the runner of the batch in slot s
RunnerStep(s) ==
    /\ \/ RequestResolves
       \/ RequestRejects
       \/ PauseElapses
    /\ batches'[s] # batches[s]

\* what holds of every batch while another one may be running
LiveBatchOrder ==
    \A s \in Dispatched :
        LET b == batches[s]
        IN  /\ b.started = Upto(Len(b.started))
            /\ Cardinality(InFlight(b)) <= 1
            /\ \A j \in Range(b.started) : j > 0 => (j - 1) \in b.settled
            /\ b.timers > 0 => InFlight(b) = {}
            /\ Urls(b) = SelectSeq(b.present,
                                   LAMBDA u : includeSelfInActions \/ u # myId)

\* nothing waits: an action can be dispatched while a batch is running, and
\* every running batch can take its next step whatever the others do
LiveNoWaiting ==
    /\ (\E s \in DOMAIN batches : Settled(batches[s])) =>
           ENABLED serverMute /\ ENABLED serverUnmute
    /\ \A s \in DOMAIN batches : ~Settled(batches[s]) => ENABLED RunnerStep(s)

\* a step touches one batch only; a dispatched batch takes the roster of the
\* members present at that moment and keeps it while members join and leave
LiveStep ==
    \A s \in DOMAIN batches :
        batches'[s] # batches[s] =>
            /\ \A t \in DOMAIN batches \ {s} : batches'[t] = batches[t]
            /\ IF Settled(batches[s])
               THEN /\ batches'[s].present = voiceStates
                    /\ Urls(batches'[s]) =
                           SelectSeq(voiceStates,
                                     LAMBDA u : includeSelfInActions \/ u # myId)
               ELSE /\ batches'[s].present = batches[s].present
                    /\ batches'[s].promises = batches[s].promises
                    /\ voiceStates' = voiceStates

\* C11: bulk server actions dispatched while a batch is running run as
\* independent batches: none waits for another, a step of one leaves the
\* others as they are, each issues its requests in its own roster order with
\* at most one of its own in flight, and each keeps the roster computed from
\* the members present at its own dispatch.
C11_IndependentBatches ==
    /\ [](LiveBatchOrder /\ LiveNoWaiting)
    /\ [][LiveStep]_vars

\* two batches with different rosters, each with its second request in flight
C11_Witness ==
    /\ batches[1].status = "request"
    /\ batches[2].status = "request"
    /\ batches[1].op # batches[2].op
    /\ batches[1].present # batches[2].present
    /\ batches[2].present # voiceStates
    /\ batches[1].started = <<0, 1>>
    /\ batches[2].started = <<0, 1>>

====
